---------------------------- MODULE Spec2Model ----------------------------
(***************************************************************************)
(* Model of the two batch classifiers of fink-science:                     *)
(*   predict_nn  (fink_science/cats/processor.py)                          *)
(*   t2          (fink_science/t2/processor.py)                            *)
(* Each call is a straight-line run over one columnar batch; the model     *)
(* follows the statements of each function in order, one action per        *)
(* statement group, with pc the position in the function.                  *)
(*                                                                         *)
(* Numbers are integers: times are whole days, normalised fluxes are       *)
(* per-mille, probabilities are per-mille.  Python's 0-based step k is     *)
(* index k + 1 here.                                                       *)
(***************************************************************************)
EXTENDS Integers, Sequences, FiniteSets, TLC

VARIABLES
    fn,           \* which function this run is a call of
    pc,           \* position in the function body
    \* ---- predict_nn: arguments
    midpointTai, psFlux, psFluxErr, filterName, model,
    \* ---- predict_nn: locals
    i_nn,         \* enumerate index of the loop of lines 109-117
    mjd, filters, flux, error, band, lc, NN, preds,
    nn_return,    \* the returned pd.Series
    \* ---- predict_nn: call log of the external services
    nn_loaded,    \* model paths given to tf.keras.models.load_model
    nn_fed,       \* tensors given to NN.predict
    \* ---- t2: arguments
    candid, jd, fid, magpsf, sigmapsf, model_name,
    \* ---- t2: locals
    to_return, mask, dates, pdf, t2_model, vals,
    i_t2,         \* position in candid[mask] of the loop of lines 156-180
    \* ---- t2: call log of the external services
    t2_loaded,    \* model names given to get_lite_model
    t2_steps,     \* the external steps run so far, in order
    gp_calls,     \* [obj, candid] of each generate_gp_all_objects call
    predict_calls \* [by, obj, candid] of each model.predict call

nnvars == <<midpointTai, psFlux, psFluxErr, filterName, model, i_nn, mjd,
            filters, flux, error, band, lc, NN, preds, nn_return,
            nn_loaded, nn_fed>>

t2vars == <<candid, jd, fid, magpsf, sigmapsf, model_name, to_return, mask,
            dates, pdf, t2_model, vals, i_t2, t2_loaded, t2_steps,
            gp_calls, predict_calls>>

vars == <<fn, pc, nnvars, t2vars>>

-----------------------------------------------------------------------------
(* Bounds of the model *)

\* largest batch (number of objects of one call)
MaxBatch == 2

\* how many observations the longest light curve has beyond maxlen
MaxOver == 1

-----------------------------------------------------------------------------
(* predict_nn: constants *)

\* maxlen=395 of the four pad_sequences calls
maxlen == 395

\* value=-999.0 of the time, flux and error padding
PadValue == -999

\* value=0.0 of the band padding
BandPad == 0

filter_dict == [u |-> 1, g |-> 2, r |-> 3, i |-> 4, z |-> 5, Y |-> 6]

FilterNames == <<"u", "g", "r", "i", "z", "Y">>

DefaultNNPath == "cats_small_nometa_serial.keras"

\* values an override column can hold
NNPaths == {"override_a.keras", "override_b.keras"}

-----------------------------------------------------------------------------
(* predict_nn: the batches the model is run on *)

\* Light curves are drawn from a catalogue of shapes <<length, variant>>:
\* empty, one observation, two, exactly maxlen, and longer than maxlen.
LcShapes ==
    { <<0, 1>>, <<1, 1>>, <<2, 1>>, <<2, 2>>, <<maxlen, 1>>,
      <<maxlen + MaxOver, 2>> }

TimeOf(v, k) == 60000 + 10 * v + 2 * (k - 1)
FluxOf(v, k) == 100 * v + ((7 * k) % 13)
ErrOf(v, k)  == 1 + ((3 * k + v) % 5)
BandOf(v, k) == FilterNames[((k + v) % 6) + 1]

LcTimes(s) == [k \in 1..s[1] |-> TimeOf(s[2], k)]
LcFlux(s)  == [k \in 1..s[1] |-> FluxOf(s[2], k)]
LcErr(s)   == [k \in 1..s[1] |-> ErrOf(s[2], k)]
LcBand(s)  == [k \in 1..s[1] |-> BandOf(s[2], k)]

\* batches of n objects
ShapeBatches(n) == [1..n -> LcShapes]

\* the model argument: absent (None) or a column with one path per object
NoModel == [given |-> FALSE, col |-> <<>>]

ModelColumns(n) ==
    {NoModel} \cup
    { [given |-> TRUE, col |-> [k \in 1..n |-> IF k = 1 THEN a ELSE b]] :
        a \in NNPaths, b \in NNPaths }

-----------------------------------------------------------------------------
(* predict_nn: helpers *)

Min(a, b) == IF a < b THEN a ELSE b

SeqMin(s) == CHOOSE x \in {s[k] : k \in 1..Len(s)} :
                 \A k \in 1..Len(s) : x <= s[k]
SeqMax(s) == CHOOSE x \in {s[k] : k \in 1..Len(s)} :
                 \A k \in 1..Len(s) : x >= s[k]

\* fink_science.cats.utilities.norm_column: min-max scaling of one column,
\* a single value mapping to 1.0; one output per input, in input order.
norm_column(col) ==
    IF Len(col) = 1 THEN <<1000>>
    ELSE LET lo == SeqMin(col)
             ptp == SeqMax(col) - lo
         IN  [k \in 1..Len(col) |-> ((col[k] - lo) * 1000) \div ptp]

\* Faulty variant of PadOne: padding="pre", the sentinels come first.
PadOnePrePadding(s, n, value) ==
    LET len   == Len(s)
        trunc == IF len > n THEN SubSeq(s, len - n + 1, len) ELSE s
        lead  == n - Len(trunc)
    IN  [k \in 1..n |-> IF k <= lead THEN value ELSE trunc[k - lead]]

\* Faulty variant of PadOne: truncating="post", a long sequence keeps its
\* first n values.
PadOneTruncPost(s, n, value) ==
    LET trunc == IF Len(s) > n THEN SubSeq(s, 1, n) ELSE s
    IN  [k \in 1..n |-> IF k <= Len(trunc) THEN trunc[k] ELSE value]

\* keras.utils.pad_sequences on one sequence, as called on lines 122-136:
\* padding="post", and truncating left at its default "pre", which drops
\* values from the START of a sequence longer than maxlen.
PadOne(s, n, value) ==
    LET len   == Len(s)
        trunc == IF len > n THEN SubSeq(s, len - n + 1, len) ELSE s
    IN  [k \in 1..n |-> IF k <= Len(trunc) THEN trunc[k] ELSE value]

pad_sequences(seqs, n, value) ==
    [r \in 1..Len(seqs) |-> PadOne(seqs[r], n, value)]

\* np.concatenate([mjd[..., None], flux[..., None], error[..., None],
\*                 band[..., None]], axis=-1)
Concatenate(m, f, e, b) ==
    [r \in 1..Len(m) |-> [k \in 1..Len(m[r]) |->
        <<m[r][k], f[r][k], e[r][k], b[r][k]>>]]

\* NN.predict: one vector of 5 class probabilities per row of the tensor,
\* decided by the loaded model and by that row alone.
RowDigest(row) ==
    (row[1][2] + 3 * row[1][3] + 5 * row[1][4]
        + 7 * row[Len(row)][1] + 11 * row[Len(row)][4]) % 97

ModelSeed(m) ==
    IF m = DefaultNNPath THEN 1 ELSE IF m = "override_a.keras" THEN 2 ELSE 3

NNPredict(m, tensor) ==
    [r \in 1..Len(tensor) |->
        [c \in 1..5 |-> (ModelSeed(m) * 101 + RowDigest(tensor[r]) + c) % 1001]]

-----------------------------------------------------------------------------
(* predict_nn: the call *)

\* the variables of t2 while the run is a call of predict_nn
T2Idle ==
    /\ candid = <<>> /\ jd = <<>> /\ fid = <<>> /\ magpsf = <<>>
    /\ sigmapsf = <<>> /\ model_name = NoModel
    /\ to_return = <<>> /\ mask = <<>> /\ dates = <<>> /\ pdf = <<>>
    /\ t2_model = "" /\ vals = <<>> /\ i_t2 = 0
    /\ t2_loaded = <<>> /\ t2_steps = <<>>
    /\ gp_calls = <<>> /\ predict_calls = <<>>

InitNN ==
    /\ fn = "predict_nn"
    /\ pc = "loop"
    /\ \E n \in 0..MaxBatch : \E b \in ShapeBatches(n) :
         /\ midpointTai = [k \in 1..n |-> LcTimes(b[k])]
         /\ psFlux      = [k \in 1..n |-> LcFlux(b[k])]
         /\ psFluxErr   = [k \in 1..n |-> LcErr(b[k])]
         /\ filterName  = [k \in 1..n |-> LcBand(b[k])]
         /\ model \in ModelColumns(n)
    /\ i_nn = 0
    /\ mjd = <<>> /\ filters = <<>>
    /\ flux = <<>> /\ error = <<>> /\ band = <<>> /\ lc = <<>>
    /\ NN = "" /\ preds = <<>> /\ nn_return = <<>>
    /\ nn_loaded = <<>> /\ nn_fed = <<>>
    /\ T2Idle

\* lines 109-117, one iteration: an object with observations contributes its
\* filter codes and its times relative to its first observation; an object
\* with none contributes nothing to either list.
NNLoopStep ==
    /\ fn = "predict_nn" /\ pc = "loop" /\ i_nn < Len(midpointTai)
    /\ LET mjds == midpointTai[i_nn + 1]
           names == filterName[i_nn + 1]
       IN  IF Len(mjds) > 0
           THEN /\ filters' = Append(filters,
                       [k \in 1..Len(names) |-> filter_dict[names[k]]])
                /\ mjd' = Append(mjd,
                       [k \in 1..Len(mjds) |-> mjds[k] - mjds[1]])
           ELSE UNCHANGED <<filters, mjd>>
    /\ i_nn' = i_nn + 1
    /\ UNCHANGED <<fn, pc, t2vars, midpointTai, psFlux, psFluxErr, filterName, model,
                   flux, error, band, lc, NN, preds, nn_return, nn_loaded,
                   nn_fed>>

\* the loop is exhausted
NNLoopEnd ==
    /\ fn = "predict_nn" /\ pc = "loop" /\ i_nn = Len(midpointTai)
    /\ pc' = "norm"
    /\ UNCHANGED <<fn, nnvars, t2vars>>

HasEmpty(col) == \E k \in 1..Len(col) : Len(col[k]) = 0

\* lines 119-120: every object's flux and error column is normalised,
\* whether or not the object has observations.
NNNormalise ==
    /\ fn = "predict_nn" /\ pc = "norm"
    /\ ~HasEmpty(psFlux)
    /\ flux'  = [k \in 1..Len(psFlux) |-> norm_column(psFlux[k])]
    /\ error' = [k \in 1..Len(psFluxErr) |-> norm_column(psFluxErr[k])]
    /\ pc' = "pad"
    /\ UNCHANGED <<fn, t2vars, midpointTai, psFlux, psFluxErr, filterName, model,
                   i_nn, mjd, filters, band, lc, NN, preds, nn_return,
                   nn_loaded, nn_fed>>

\* lines 119-120 on a batch holding an object with no observation: the
\* reduction over an empty column either raises there, or yields an empty
\* column and the call goes on.
NNNormaliseEmpty ==
    /\ fn = "predict_nn" /\ pc = "norm"
    /\ HasEmpty(psFlux)
    /\ \/ /\ pc' = "raised"
          /\ UNCHANGED <<flux, error>>
       \/ /\ flux'  = [k \in 1..Len(psFlux) |->
                IF Len(psFlux[k]) = 0 THEN <<>> ELSE norm_column(psFlux[k])]
          /\ error' = [k \in 1..Len(psFluxErr) |->
                IF Len(psFluxErr[k]) = 0 THEN <<>>
                ELSE norm_column(psFluxErr[k])]
          /\ pc' = "pad"
    /\ UNCHANGED <<fn, t2vars, midpointTai, psFlux, psFluxErr, filterName, model,
                   i_nn, mjd, filters, band, lc, NN, preds, nn_return,
                   nn_loaded, nn_fed>>

\* lines 122-136
NNPad ==
    /\ fn = "predict_nn" /\ pc = "pad"
    /\ flux'  = pad_sequences(flux, maxlen, PadValue)
    /\ mjd'   = pad_sequences(mjd, maxlen, PadValue)
    /\ error' = pad_sequences(error, maxlen, PadValue)
    /\ band'  = pad_sequences(filters, maxlen, BandPad)
    /\ pc' = "concat"
    /\ UNCHANGED <<fn, t2vars, midpointTai, psFlux, psFluxErr, filterName, model,
                   i_nn, filters, lc, NN, preds, nn_return, nn_loaded,
                   nn_fed>>

\* lines 138-140: the four arrays must agree in their number of rows
NNConcat ==
    /\ fn = "predict_nn" /\ pc = "concat"
    /\ IF Len(mjd) = Len(flux) /\ Len(flux) = Len(error)
          /\ Len(error) = Len(band)
       THEN /\ lc' = Concatenate(mjd, flux, error, band)
            /\ pc' = "load"
       ELSE /\ pc' = "raised"
            /\ UNCHANGED lc
    /\ UNCHANGED <<fn, t2vars, midpointTai, psFlux, psFluxErr, filterName, model,
                   i_nn, mjd, filters, flux, error, band, NN, preds,
                   nn_return, nn_loaded, nn_fed>>

\* lines 142-147
NNModelPath ==
    IF ~model.given THEN DefaultNNPath ELSE model.col[1]

\* lines 142-149; model.to_numpy()[0] of an empty column raises
NNLoad ==
    /\ fn = "predict_nn" /\ pc = "load"
    /\ IF model.given /\ Len(model.col) = 0
       THEN /\ pc' = "raised"
            /\ UNCHANGED <<NN, nn_loaded>>
       ELSE /\ NN' = NNModelPath
            /\ nn_loaded' = Append(nn_loaded, NNModelPath)
            /\ pc' = "predict"
    /\ UNCHANGED <<fn, t2vars, midpointTai, psFlux, psFluxErr, filterName, model,
                   i_nn, mjd, filters, flux, error, band, lc, preds,
                   nn_return, nn_fed>>

\* line 151
NNPredictStep ==
    /\ fn = "predict_nn" /\ pc = "predict"
    /\ preds' = NNPredict(NN, lc)
    /\ nn_fed' = Append(nn_fed, [by |-> NN, tensor |-> lc])
    /\ pc' = "return"
    /\ UNCHANGED <<fn, t2vars, midpointTai, psFlux, psFluxErr, filterName, model,
                   i_nn, mjd, filters, flux, error, band, lc, NN, nn_return,
                   nn_loaded>>

\* line 153
NNReturn ==
    /\ fn = "predict_nn" /\ pc = "return"
    /\ nn_return' = preds
    /\ pc' = "done"
    /\ UNCHANGED <<fn, t2vars, midpointTai, psFlux, psFluxErr, filterName, model,
                   i_nn, mjd, filters, flux, error, band, lc, NN, preds,
                   nn_loaded, nn_fed>>

NextNN ==
    \/ NNLoopStep
    \/ NNLoopEnd
    \/ NNNormalise
    \/ NNNormaliseEmpty
    \/ NNPad
    \/ NNConcat
    \/ NNLoad
    \/ NNPredictStep
    \/ NNReturn

SpecNN == InitNN /\ [][NextNN]_vars

-----------------------------------------------------------------------------
(* t2: constants *)

\* fink_science.t2.utilities.T2_COLS: the class labels, in output order
T2_COLS == <<"AGN", "SNII", "SNIa">>

\* line 112: default = {k: -1.0 for k in T2_COLS}
default == [k \in {T2_COLS[c] : c \in 1..Len(T2_COLS)} |-> -1]

ZTF_FILTER_MAP == <<"ztfg", "ztfr", "ztfi">>

\* a missing measurement, which pdf.dropna() removes
NaN == -1

\* get_lite_model() without a name
DefaultT2Model == "default-lite-model"

\* values an override column can hold
T2ModelNames == {"tinho", "other"}

-----------------------------------------------------------------------------
(* t2: the batches the model is run on *)

\* candidate ids; two objects of a batch may carry the same one
CandidIds == {101, 102}

Obs(t, f, m, s) == [jd |-> t, fid |-> f, magpsf |-> m, sigmapsf |-> s]

\* Light curves, by what survives dropna: no row (Z), one filter (G, whose
\* r point is missing, and R), two filters (GR), three filters (GRI).
T2Shapes == {"Z", "G", "R", "GR", "GRI"}

T2Obs(shape) ==
    CASE shape = "Z"   -> << Obs(2459000, 1, NaN, NaN),
                             Obs(2459001, 2, NaN, NaN) >>
      [] shape = "G"   -> << Obs(2459010, 1, 1810, 11),
                             Obs(2459012, 2, NaN, NaN),
                             Obs(2459013, 1, 1820, 12) >>
      [] shape = "R"   -> << Obs(2459020, 2, 1790, 9),
                             Obs(2459021, 2, 1795, 10) >>
      [] shape = "GR"  -> << Obs(2459030, 1, 1900, 15),
                             Obs(2459031, 2, 1880, 14),
                             Obs(2459033, 1, 1910, 16) >>
      [] shape = "GRI" -> << Obs(2459040, 1, 1700, 5),
                             Obs(2459041, 2, 1710, 6),
                             Obs(2459042, 3, 1720, 7) >>

T2Column(shapes, field) ==
    [o \in 1..Len(shapes) |->
        [k \in 1..Len(T2Obs(shapes[o])) |-> T2Obs(shapes[o])[k][field]]]

T2ModelColumns(n) ==
    {NoModel} \cup
    { [given |-> TRUE, col |-> [k \in 1..n |-> IF k = 1 THEN a ELSE b]] :
        a \in T2ModelNames, b \in T2ModelNames }

-----------------------------------------------------------------------------
(* t2: helpers *)

\* the objects the mask selects, in batch order: the positions of candid[mask]
RECURSIVE Selected(_)
Selected(m) ==
    IF Len(m) = 0 THEN <<>>
    ELSE LET front == Selected(SubSeq(m, 1, Len(m) - 1))
         IN  IF m[Len(m)] THEN Append(front, Len(m)) ELSE front

\* how many of m[1..n] are true
Rank(m, n) == Cardinality({k \in 1..n : m[k]})

\* fink_utils mag2fluxcal_snana: a missing magnitude gives a missing flux
FluxCal(m) == IF m = NaN THEN NaN ELSE 30000 - 10 * m
FluxCalErr(m, s) == IF m = NaN \/ s = NaN THEN NaN ELSE s * 3

\* the rows of one object in the SNANA table, renamed as on lines 135-143
SnanaRows(o, dts, mag, sig, fids, cands) ==
    [k \in 1..Len(dts[o]) |->
        [object_id  |-> cands[o],
         mjd        |-> dts[o][k],
         flux       |-> FluxCal(mag[o][k]),
         flux_error |-> FluxCalErr(mag[o][k], sig[o][k]),
         filter     |-> ZTF_FILTER_MAP[fids[o][k]]]]

RECURSIVE Flatten(_)
Flatten(ss) ==
    IF Len(ss) = 0 THEN <<>> ELSE Head(ss) \o Flatten(Tail(ss))

\* fink_utils format_data_as_snana(dates, magpsf, sigmapsf, fid, candid,
\* mask, ...): one row per observation of every object the mask selects,
\* object after object; then the renaming of lines 135-143.
format_data_as_snana(dts, mag, sig, fids, cands, m) ==
    LET sel == Selected(m)
    IN  Flatten([s \in 1..Len(sel) |->
                    SnanaRows(sel[s], dts, mag, sig, fids, cands)])

\* line 145: rows holding a missing value are dropped
HasNaN(row) == row.flux = NaN \/ row.flux_error = NaN

dropna(rows) == SelectSeq(rows, LAMBDA row : ~HasNaN(row))

\* line 158: sub = pdf[pdf["object_id"] == candid_]
SubOf(rows, c) == SelectSeq(rows, LAMBDA row : row.object_id = c)

\* line 161: np.unique(sub["filter"])
UniqueFilters(sub) == {sub[k].filter : k \in 1..Len(sub)}

\* lines 166-176: the Gaussian-process features of sub, scaled, scored by the
\* model: a vector decided by the model and by every row of sub.
RECURSIVE SubDigest(_)
SubDigest(sub) ==
    IF Len(sub) = 0 THEN 0
    ELSE LET row == Head(sub)
         IN  (row.flux + 3 * row.mjd + 7 * row.flux_error
                + (IF row.filter = "ztfg" THEN 13 ELSE 17)
                + 31 * SubDigest(Tail(sub))) % 1009

T2ModelSeed(m) ==
    IF m = DefaultT2Model THEN 1 ELSE IF m = "tinho" THEN 2 ELSE 3

\* values[0] of line 178
T2Predict(m, sub) ==
    [c \in 1..Len(T2_COLS) |->
        (T2ModelSeed(m) * 211 + SubDigest(sub) * 5 + c) % 1001]

\* line 179: dict(zip(T2_COLS, values[0]))
ZipCols(values) ==
    [k \in {T2_COLS[c] : c \in 1..Len(T2_COLS)} |->
        values[CHOOSE c \in 1..Len(T2_COLS) : T2_COLS[c] = k]]

\* Faulty variant of Scatter: the computed values alone are returned.
ScatterCompact(arr, m, vs) == vs

\* Faulty variant of Scatter: the values fill the first rows of the batch.
ScatterFront(arr, m, vs) ==
    [o \in 1..Len(arr) |-> IF o <= Len(vs) THEN vs[o] ELSE arr[o]]

\* Faulty variant of Scatter: the values are written in reverse order.
ScatterReversed(arr, m, vs) ==
    [o \in 1..Len(arr) |->
        IF m[o] THEN vs[Len(vs) + 1 - Rank(m, o)] ELSE arr[o]]

\* line 182: to_return[mask] = vals, the k-th value to the k-th selected row
Scatter(arr, m, vs) ==
    [o \in 1..Len(arr) |-> IF m[o] THEN vs[Rank(m, o)] ELSE arr[o]]

-----------------------------------------------------------------------------
(* t2: the call *)

\* the variables of predict_nn while the run is a call of t2
NNIdle ==
    /\ midpointTai = <<>> /\ psFlux = <<>> /\ psFluxErr = <<>>
    /\ filterName = <<>> /\ model = NoModel /\ i_nn = 0
    /\ mjd = <<>> /\ filters = <<>>
    /\ flux = <<>> /\ error = <<>> /\ band = <<>> /\ lc = <<>>
    /\ NN = "" /\ preds = <<>> /\ nn_return = <<>>
    /\ nn_loaded = <<>> /\ nn_fed = <<>>

InitT2 ==
    /\ fn = "t2"
    /\ pc = "begin"
    /\ \E n \in 0..MaxBatch : \E shapes \in [1..n -> T2Shapes] :
         /\ candid \in [1..n -> CandidIds]
         /\ jd       = T2Column(shapes, "jd")
         /\ fid      = T2Column(shapes, "fid")
         /\ magpsf   = T2Column(shapes, "magpsf")
         /\ sigmapsf = T2Column(shapes, "sigmapsf")
         /\ model_name \in T2ModelColumns(n)
    /\ to_return = <<>> /\ mask = <<>> /\ dates = <<>> /\ pdf = <<>>
    /\ t2_model = "" /\ vals = <<>> /\ i_t2 = 0
    /\ t2_loaded = <<>> /\ t2_steps = <<>>
    /\ gp_calls = <<>> /\ predict_calls = <<>>
    /\ NNIdle

\* lines 112-113
T2Begin ==
    /\ fn = "t2" /\ pc = "begin"
    /\ to_return' = [o \in 1..Len(jd) |-> default]
    /\ pc' = "select"
    /\ UNCHANGED <<fn, nnvars, candid, jd, fid, magpsf, sigmapsf, model_name,
                   mask, dates, pdf, t2_model, vals, i_t2, t2_loaded,
                   t2_steps, gp_calls, predict_calls>>

\* line 115: apply_selection_cuts_ztf gives one boolean per object; roid,
\* cdsxmatch and jdstarthist, which it decides on, are not followed here,
\* so every outcome is possible.
T2Select ==
    /\ fn = "t2" /\ pc = "select"
    /\ mask' \in [1..Len(jd) -> BOOLEAN]
    /\ pc' = "check"
    /\ UNCHANGED <<fn, nnvars, candid, jd, fid, magpsf, sigmapsf, model_name,
                   to_return, dates, pdf, t2_model, vals, i_t2, t2_loaded,
                   t2_steps, gp_calls, predict_calls>>

\* Faulty variant of NothingSelected: the test is on the batch, len(jd) == 0.
NothingSelectedBatchEmpty == Len(jd) = 0

\* line 117: len(jd[mask]) == 0
NothingSelected == Len(Selected(mask)) = 0

\* lines 117-118: nothing selected, the defaults are returned at once
T2ReturnEarly ==
    /\ fn = "t2" /\ pc = "check"
    /\ NothingSelected
    /\ pc' = "done"
    /\ UNCHANGED <<fn, nnvars, t2vars>>

\* line 117 false, then line 129: dates = jd.apply(lambda x: [x[0] - i ...])
T2Dates ==
    /\ fn = "t2" /\ pc = "check"
    /\ ~NothingSelected
    /\ dates' = [o \in 1..Len(jd) |->
                    [k \in 1..Len(jd[o]) |-> jd[o][1] - jd[o][k]]]
    /\ t2_steps' = Append(t2_steps, "dates")
    /\ pc' = "snana"
    /\ UNCHANGED <<fn, nnvars, candid, jd, fid, magpsf, sigmapsf, model_name,
                   to_return, mask, pdf, t2_model, vals, i_t2, t2_loaded,
                   gp_calls, predict_calls>>

\* lines 131-146
T2Snana ==
    /\ fn = "t2" /\ pc = "snana"
    /\ pdf' = dropna(format_data_as_snana(dates, magpsf, sigmapsf, fid,
                                          candid, mask))
    /\ t2_steps' = Append(t2_steps, "snana")
    /\ pc' = "load"
    /\ UNCHANGED <<fn, nnvars, candid, jd, fid, magpsf, sigmapsf, model_name,
                   to_return, mask, dates, t2_model, vals, i_t2, t2_loaded,
                   gp_calls, predict_calls>>

\* Faulty variant of T2ModelName: the last element of the column is taken.
T2ModelNameLast ==
    IF model_name.given THEN model_name.col[Len(model_name.col)]
    ELSE DefaultT2Model

\* lines 148-153
T2ModelName ==
    IF model_name.given THEN model_name.col[1] ELSE DefaultT2Model

T2Load ==
    /\ fn = "t2" /\ pc = "load"
    /\ t2_model' = T2ModelName
    /\ t2_loaded' = Append(t2_loaded, T2ModelName)
    /\ t2_steps' = Append(t2_steps, "load")
    /\ vals' = <<>>
    /\ i_t2' = 0
    /\ pc' = "loop"
    /\ UNCHANGED <<fn, nnvars, candid, jd, fid, magpsf, sigmapsf, model_name,
                   to_return, mask, dates, pdf, gp_calls, predict_calls>>

\* lines 156-163: an object whose sub-table does not hold exactly two
\* filters gets the default, and the loop goes on
T2LoopDefault ==
    /\ fn = "t2" /\ pc = "loop" /\ i_t2 < Len(Selected(mask))
    /\ LET candid_ == candid[Selected(mask)[i_t2 + 1]]
       IN  /\ Cardinality(UniqueFilters(SubOf(pdf, candid_))) # 2
           /\ vals' = Append(vals, default)
    /\ i_t2' = i_t2 + 1
    /\ UNCHANGED <<fn, pc, nnvars, candid, jd, fid, magpsf, sigmapsf,
                   model_name, to_return, mask, dates, pdf, t2_model,
                   t2_loaded, t2_steps, gp_calls, predict_calls>>

\* lines 156-161 and 165-180: Gaussian process, scaling, model.predict
T2LoopPredict ==
    /\ fn = "t2" /\ pc = "loop" /\ i_t2 < Len(Selected(mask))
    /\ LET obj == Selected(mask)[i_t2 + 1]
           candid_ == candid[obj]
       IN  /\ Cardinality(UniqueFilters(SubOf(pdf, candid_))) = 2
           /\ gp_calls' = Append(gp_calls,
                                 [obj |-> obj, candid |-> candid_])
           /\ predict_calls' = Append(predict_calls,
                   [by |-> t2_model, obj |-> obj, candid |-> candid_])
           /\ t2_steps' = Append(Append(t2_steps, "gp"), "predict")
           /\ vals' = Append(vals,
                   ZipCols(T2Predict(t2_model, SubOf(pdf, candid_))))
    /\ i_t2' = i_t2 + 1
    /\ UNCHANGED <<fn, pc, nnvars, candid, jd, fid, magpsf, sigmapsf,
                   model_name, to_return, mask, dates, pdf, t2_model,
                   t2_loaded>>

\* line 182; numpy refuses values that do not number the selected rows
T2Scatter ==
    /\ fn = "t2" /\ pc = "loop" /\ i_t2 = Len(Selected(mask))
    /\ IF Len(vals) = Len(Selected(mask))
       THEN /\ to_return' = Scatter(to_return, mask, vals)
            /\ pc' = "return"
       ELSE /\ pc' = "raised"
            /\ UNCHANGED to_return
    /\ UNCHANGED <<fn, nnvars, candid, jd, fid, magpsf, sigmapsf, model_name,
                   mask, dates, pdf, t2_model, vals, i_t2, t2_loaded,
                   t2_steps, gp_calls, predict_calls>>

\* line 185
T2Return ==
    /\ fn = "t2" /\ pc = "return"
    /\ pc' = "done"
    /\ UNCHANGED <<fn, nnvars, t2vars>>

NextT2 ==
    \/ T2Begin
    \/ T2Select
    \/ T2ReturnEarly
    \/ T2Dates
    \/ T2Snana
    \/ T2Load
    \/ T2LoopDefault
    \/ T2LoopPredict
    \/ T2Scatter
    \/ T2Return

SpecT2 == InitT2 /\ [][NextT2]_vars

-----------------------------------------------------------------------------
(* Either function *)

Init == InitNN \/ InitT2

Next == NextNN \/ NextT2

Spec == Init /\ [][Next]_vars

-----------------------------------------------------------------------------
(* Properties of t2 *)

\* number of objects of the batch given to t2
T2N == Len(jd)

\* the rows object o alone contributes to the table: its own observations,
\* formatted and cleaned as on lines 131-146
OwnRows(o) == dropna(SnanaRows(o, dates, magpsf, sigmapsf, fid, candid))

\* the value lines 161-180 compute from a sub-table under the loaded model
ValueOf(sub) ==
    IF Cardinality(UniqueFilters(sub)) # 2
    THEN default
    ELSE ZipCols(T2Predict(t2_model, sub))

\* the mask is computed and selects at least one object
SomeSelected == \E o \in 1..Len(mask) : mask[o]

\* C1: t2 never raises and returns exactly one output row per input object,
\* whatever the batch size (0 included) and whatever the selection mask.
C1_OneRowPerObject ==
    fn = "t2" =>
        /\ pc # "raised"
        /\ pc = "done" => Len(to_return) = T2N

\* C1 case: a finished call on a full batch in which some objects are
\* selected and some are not
C1_Witness ==
    /\ fn = "t2" /\ pc = "done" /\ T2N = MaxBatch
    /\ \E a, b \in 1..T2N : mask[a] /\ ~mask[b]
    /\ Len(to_return) = T2N

\* C3: in the returned series, the row of every object the mask excludes is
\* the default mapping (-1.0 for every label of T2_COLS).
C3_ExcludedRowsAreDefault ==
    (fn = "t2" /\ pc = "done") =>
        \A o \in 1..T2N :
            ~mask[o] =>
                /\ to_return[o] = default
                /\ \A c \in 1..Len(T2_COLS) : to_return[o][T2_COLS[c]] = -1

\* C3 case: an excluded object sits before a selected object that got a
\* real prediction
C3_Witness ==
    /\ fn = "t2" /\ pc = "done"
    /\ \E a, b \in 1..T2N :
         a < b /\ ~mask[a] /\ mask[b] /\ to_return[b] # default
         /\ to_return[a] = default

\* C4: the k-th computed value goes to the k-th selected position: there are
\* as many computed values as selected objects, and the row of every selected
\* object o is the value the loop computed for candid[o].
C4_MergedInPlace ==
    (fn = "t2" /\ pc = "done" /\ SomeSelected) =>
        /\ Len(vals) = Len(Selected(mask))
        /\ \A o \in 1..T2N :
             mask[o] =>
                /\ to_return[o] = vals[Rank(mask, o)]
                /\ to_return[o] = ValueOf(SubOf(pdf, candid[o]))

\* C4 case: two selected objects with different candid got different rows
C4_Witness ==
    /\ fn = "t2" /\ pc = "done"
    /\ \E a, b \in 1..T2N :
         /\ a < b /\ mask[a] /\ mask[b] /\ candid[a] # candid[b]
         /\ to_return[a] # to_return[b]
         /\ to_return[a] # default

\* C5 as stated: every selected object whose own rows, after the rows with
\* a missing value are dropped, hold a number of distinct filters other than
\* 2 gets the default row, and neither the Gaussian-process step nor
\* model.predict is run for it.
C5_Original ==
    (fn = "t2" /\ pc = "done" /\ SomeSelected) =>
        \A o \in 1..T2N :
            (mask[o] /\ Cardinality(UniqueFilters(OwnRows(o))) # 2) =>
                /\ to_return[o] = default
                /\ \A c \in 1..Len(gp_calls) : gp_calls[c].obj # o
                /\ \A c \in 1..Len(predict_calls) : predict_calls[c].obj # o

\* C8: when the mask selects nothing (the empty batch included) the call
\* goes from the test of line 117 straight to its end, returns one default
\* row per object, and runs none of: date rescaling, SNANA formatting, model
\* load, Gaussian process, model.predict.
C8_NothingSelectedReturnsAtOnce ==
    (fn = "t2" /\ pc \notin {"begin", "select"} /\ ~SomeSelected) =>
        /\ pc \in {"check", "done"}
        /\ to_return = [o \in 1..T2N |-> default]
        /\ t2_steps = <<>>
        /\ dates = <<>> /\ pdf = <<>>
        /\ t2_loaded = <<>> /\ gp_calls = <<>> /\ predict_calls = <<>>

\* C8 case: a finished call on a full batch of which nothing was selected
C8_Witness ==
    /\ fn = "t2" /\ pc = "done" /\ T2N = MaxBatch
    /\ \A o \in 1..T2N : ~mask[o]

\* C9 as stated: the row of a selected object is decided by its own
\* observations and the model alone, i.e. it is the value lines 161-180
\* compute from the object's own rows, whatever else the batch holds.
C9_Original ==
    (fn = "t2" /\ pc = "done" /\ SomeSelected) =>
        \A o \in 1..T2N : mask[o] => to_return[o] = ValueOf(OwnRows(o))

-----------------------------------------------------------------------------
(* Properties of predict_nn *)

\* number of objects of the batch given to predict_nn
NNN == Len(midpointTai)

AllNonEmpty == \A o \in 1..NNN : Len(midpointTai[o]) > 0

\* what observation k of object o puts in the four channels
Channels(o, nf, ne, k) ==
    << midpointTai[o][k] - midpointTai[o][1], nf[k], ne[k],
       filter_dict[filterName[o][k]] >>

\* C2 as stated: predict_nn returns one prediction vector per input object,
\* also for a batch holding objects with no observation: the call does not
\* raise, the tensor given to the model has N rows, the result has length N.
C2_Original ==
    fn = "predict_nn" =>
        /\ pc # "raised"
        /\ pc = "done" =>
             /\ Len(nn_fed) = 1
             /\ Len(nn_fed[1].tensor) = NNN
             /\ Len(nn_return) = NNN

\* C6: for a batch of N non-empty light curves the tensor given to the model
\* is N x 395 x 4 with channels (time, flux, error, band); an object with
\* L <= 395 observations has them in steps 0..L-1 in input order, and
\* (-999, -999, -999, 0) in steps L..394; 0 is the code of no filter and the
\* codes are 1..6.  Such a batch, when it holds at least one object, reaches
\* the model: the call does not raise.
C6_PaddedTensor ==
    /\ \A f \in DOMAIN filter_dict : filter_dict[f] \in 1..6
    /\ (fn = "predict_nn" /\ AllNonEmpty /\ NNN > 0) => pc # "raised"
    /\ (fn = "predict_nn" /\ AllNonEmpty /\ Len(nn_fed) > 0) =>
         LET tensor == nn_fed[1].tensor
         IN  /\ Len(tensor) = NNN
             /\ \A o \in 1..NNN :
                  LET L  == Len(midpointTai[o])
                      nf == norm_column(psFlux[o])
                      ne == norm_column(psFluxErr[o])
                  IN  /\ Len(tensor[o]) = 395
                      /\ \A k \in 1..395 : Len(tensor[o][k]) = 4
                      /\ L <= 395 =>
                           /\ \A k \in 1..L :
                                tensor[o][k] = Channels(o, nf, ne, k)
                           /\ \A k \in (L + 1)..395 :
                                tensor[o][k] = <<-999, -999, -999, 0>>

\* C6 case: the model was given a batch holding a short light curve and one
\* longer than 395
C6_Witness ==
    /\ fn = "predict_nn" /\ pc = "done" /\ AllNonEmpty
    /\ \E a, b \in 1..NNN :
         Len(midpointTai[a]) = 2 /\ Len(midpointTai[b]) > maxlen
    /\ Len(nn_fed) = 1

\* C7: a call that reaches inference loads exactly one model, the default
\* one without an override column and otherwise the one the FIRST element of
\* the column names, and every scoring of the call is done by that model;
\* predict_nn scores the whole batch in one tensor.
C7_OneModelFirstElement ==
    /\ (fn = "predict_nn" /\ (Len(nn_loaded) > 0 \/ Len(nn_fed) > 0)) =>
         /\ Len(nn_loaded) = 1
         /\ nn_loaded[1] =
              IF model.given THEN model.col[1] ELSE DefaultNNPath
         /\ \A c \in 1..Len(nn_fed) :
              /\ nn_fed[c].by = nn_loaded[1]
              /\ Len(nn_fed[c].tensor) = NNN
         /\ Len(nn_fed) <= 1
    /\ (fn = "t2" /\ (Len(t2_loaded) > 0 \/ Len(predict_calls) > 0)) =>
         /\ Len(t2_loaded) = 1
         /\ t2_loaded[1] =
              IF model_name.given THEN model_name.col[1] ELSE DefaultT2Model
         /\ \A c \in 1..Len(predict_calls) :
              predict_calls[c].by = t2_loaded[1]

\* C7 case: t2 scored two objects under an override column whose second
\* element names another model than its first
C7_Witness ==
    /\ fn = "t2" /\ pc = "done"
    /\ model_name.given /\ Len(model_name.col) > 1
    /\ model_name.col[1] # model_name.col[2]
    /\ Len(predict_calls) > 1

\* C10 as stated: for every object with at least one observation, of any
\* length, step 0 of the time channel is 0 and step k holds
\* time[k] - time[0] beside the flux, error and band of observation k.
C10_Original ==
    (fn = "predict_nn" /\ Len(nn_fed) > 0) =>
        LET tensor == nn_fed[1].tensor
        IN  \A o \in 1..NNN :
              LET L  == Len(midpointTai[o])
                  nf == norm_column(psFlux[o])
                  ne == norm_column(psFluxErr[o])
              IN  L > 0 =>
                    /\ tensor[o][1][1] = 0
                    /\ \A k \in 1..Min(L, 395) :
                         tensor[o][k] = Channels(o, nf, ne, k)

\* C10 amended: a light curve longer than 395 keeps its LAST 395
\* observations.  With off = max(L - 395, 0), step k holds
\* time[k + off] - time[0] beside the flux, error and band of observation
\* k + off; step 0 is 0 when L <= 395 and time[L - 395] - time[0] otherwise.
C10_Amended ==
    (fn = "predict_nn" /\ Len(nn_fed) > 0) =>
        LET tensor == nn_fed[1].tensor
        IN  \A o \in 1..NNN :
              LET L   == Len(midpointTai[o])
                  nf  == norm_column(psFlux[o])
                  ne  == norm_column(psFluxErr[o])
                  off == IF L > 395 THEN L - 395 ELSE 0
              IN  L > 0 =>
                    /\ tensor[o][1][1] =
                         midpointTai[o][1 + off] - midpointTai[o][1]
                    /\ L <= 395 => tensor[o][1][1] = 0
                    /\ \A k \in 1..Min(L, 395) :
                         tensor[o][k] = Channels(o, nf, ne, k + off)

\* C10 case: the model was given a light curve longer than 395, whose step 0
\* of the time channel is not 0
C10_Witness ==
    /\ fn = "predict_nn" /\ pc = "done"
    /\ \E o \in 1..NNN :
         /\ Len(midpointTai[o]) > maxlen
         /\ nn_fed[1].tensor[o][1][1] # 0

=============================================================================
